---- MODULE Spec2Model ----
(***************************************************************************)
(* Model of tabli-core/src/js/tabWindow.js: TabItem / TabWindow records,   *)
(* the constructors, the reconciliation of a window with a snapshot of     *)
(* the open Chrome tabs (mergeOpenTabs / updateWindow) and the single      *)
(* event mutators (closeTab, saveTab, unsaveTab, setActiveTab,             *)
(* updateTabItem, removeOpenWindowState, removeSavedWindowState).          *)
(*                                                                         *)
(* Immutable.js sequences are TLA+ sequences; positions of the source are  *)
(* 0-based and are shifted by one where a sequence is indexed.  An         *)
(* Immutable.Map of at most eight keys iterates in insertion order, so the *)
(* URL maps are sequences of entries [key, value] in insertion order.      *)
(***************************************************************************)
EXTENDS Integers, Sequences, FiniteSets

VARIABLES tabWindow, call, prev, ncalls

vars == <<tabWindow, call, prev, ncalls>>

(* ---------------------------- bounds ----------------------------------- *)
MaxTabIndex == 1       \* largest index reported by a tab event
MaxItems == 4          \* longest tabItems sequence explored
MaxCalls == 2          \* number of events delivered to a window
MaxWideTabs == 3       \* longest list of tabs in a wide window snapshot

TabIds == {1, 2}
TabIndexes == 0..MaxTabIndex
Urls == {"a", "b"}
BookmarkIds == {"b1", "b2"}
TabTitles == {"t"}
NodeTitles == {"n"}
WindowIds == {7}
WindowTypes == {"normal"}

Min(a, b) == IF a < b THEN a ELSE b

(* ------------------------- records (lines 10-53) ----------------------- *)
\* JavaScript null
Null == [null |-> TRUE]

SavedTabState(bookmarkId, bookmarkIndex, title, url) ==
    [bookmarkId |-> bookmarkId, bookmarkIndex |-> bookmarkIndex,
     title |-> title, url |-> url]

OpenTabState(url, openTabId, active, openTabIndex, favIconUrl, title, audible) ==
    [url |-> url, openTabId |-> openTabId, active |-> active,
     openTabIndex |-> openTabIndex, favIconUrl |-> favIconUrl,
     title |-> title, audible |-> audible]

TabItem(url, saved, savedState, open, openState) ==
    [url |-> url, saved |-> saved, savedState |-> savedState,
     open |-> open, openState |-> openState]

TabWindow(saved, savedTitle, savedFolderId, open, openWindowId, windowType, tabItems) ==
    [saved |-> saved, savedTitle |-> savedTitle, savedFolderId |-> savedFolderId,
     open |-> open, openWindowId |-> openWindowId, windowType |-> windowType,
     tabItems |-> tabItems]

\* TabItem.title getter
title(ti) == IF ti.open THEN ti.openState.title ELSE ti.savedState.title

(* ------------------------ item constructors ---------------------------- *)
\* bm is a bookmark node [id, index, title, url, hasUrl]
makeSavedTabState(bm) ==
    LET url == IF bm.hasUrl THEN bm.url ELSE ""
    IN  SavedTabState(bm.id, bm.index, bm.title, url)

makeBookmarkedTabItem(bm) ==
    LET savedState == makeSavedTabState(bm)
    IN  TabItem(savedState.url, TRUE, savedState, FALSE, Null)

\* tab is a Chrome tab [id, url, title, favIconUrl, active, index, audible]
makeOpenTabState(tab) ==
    OpenTabState(tab.url, tab.id, tab.active, tab.index, tab.favIconUrl,
                 tab.title, tab.audible)

makeOpenTabItem(tab) ==
    LET openState == makeOpenTabState(tab)
    IN  TabItem(openState.url, FALSE, Null, TRUE, openState)

resetSavedItem(ti) == [ti EXCEPT !.open = FALSE, !.openState = Null]

resetOpenItem(ti) == [ti EXCEPT !.saved = FALSE, !.savedState = Null]

(* ----------------------- Immutable.js helpers -------------------------- *)
\* Seq.map
MapSeq(s, f(_)) == [i \in 1..Len(s) |-> f(s[i])]

\* Seq.findEntry: the 1-based position of the first element satisfying P,
\* 0 when findEntry returns undefined
findEntry(s, P(_)) ==
    IF \E i \in 1..Len(s) : P(s[i])
    THEN CHOOSE i \in 1..Len(s) : P(s[i]) /\ \A j \in 1..(i - 1) : ~P(s[j])
    ELSE 0

\* Seq.splice(index, removeNum, ...values), index 0-based and not negative
splice(s, index, removeNum, values) ==
    LET begin == Min(Len(s), index)
    IN  SubSeq(s, 1, begin) \o values \o SubSeq(s, begin + removeNum + 1, Len(s))

\* Seq.sortBy over entries [key, val]: a stable sort by key
sortBy(keyed) ==
    LET n == Len(keyed)
        rank(i) == Cardinality({j \in 1..n :
                       \/ keyed[j].key < keyed[i].key
                       \/ keyed[j].key = keyed[i].key /\ j < i}) + 1
    IN  [p \in 1..n |-> keyed[CHOOSE i \in 1..n : rank(i) = p].val]

\* Map(Seq.groupBy(ti => ti.url)): entries in order of first occurrence
groupByUrl(items) ==
    LET first == SelectSeq([i \in 1..Len(items) |-> i],
                     LAMBDA i : \A j \in 1..(i - 1) : items[j].url # items[i].url)
    IN  [k \in 1..Len(first) |->
            [key |-> items[first[k]].url,
             value |-> SelectSeq(items, LAMBDA ti : ti.url = items[first[k]].url)]]

HasKey(map, key) == \E k \in 1..Len(map) : map[k].key = key

GetKey(map, key) == map[CHOOSE k \in 1..Len(map) : map[k].key = key].value

\* toIndexedSeq().flatten(true): the values of the map, concatenated
RECURSIVE flatten(_)
flatten(map) ==
    IF map = <<>> THEN <<>> ELSE Head(map).value \o flatten(Tail(map))

(* --------------------------- reconciliation ---------------------------- *)
\* variant: the saved state is taken from the last saved item at the URL
mergeTabItemsLastSaved(openItems, mergeSavedItems) ==
    LET savedItem == mergeSavedItems[Len(mergeSavedItems)]
    IN  MapSeq(openItems, LAMBDA openItem :
            [openItem EXCEPT !.saved = TRUE, !.savedState = savedItem.savedState])

mergeTabItems(openItems, mergeSavedItems) ==
    LET savedItem == mergeSavedItems[1]
    IN  MapSeq(openItems, LAMBDA openItem :
            [openItem EXCEPT !.saved = TRUE, !.savedState = savedItem.savedState])

\* Map.mergeWith(merger, other): keys of map keep their place, new keys of
\* other are appended in other's order
mergeWith(map, other) ==
    [k \in 1..Len(map) |->
        IF HasKey(other, map[k].key)
        THEN [key |-> map[k].key,
              value |-> mergeTabItems(map[k].value, GetKey(other, map[k].key))]
        ELSE map[k]]
    \o SelectSeq(other, LAMBDA e : ~HasKey(map, e.key))

\* variant: the saved items keep their prior open state
getOpenTabInfoNoReset(tabItems, openTabs) ==
    LET chromeOpenTabItems == MapSeq(openTabs, makeOpenTabItem)
        openUrlMap == groupByUrl(chromeOpenTabItems)
        savedItems == SelectSeq(tabItems, LAMBDA ti : ti.saved)
        savedUrlMap == groupByUrl(savedItems)
        mergedMap == mergeWith(openUrlMap, savedUrlMap)
    IN  flatten(mergedMap)

\* returns the flattened merged map; the partition by open is taken by the
\* caller with get(true) / get(false)
getOpenTabInfo(tabItems, openTabs) ==
    LET chromeOpenTabItems == MapSeq(openTabs, makeOpenTabItem)
        openUrlMap == groupByUrl(chromeOpenTabItems)
        savedItems == SelectSeq(tabItems, LAMBDA ti : ti.saved)
        baseSavedItems == MapSeq(savedItems, resetSavedItem)
        savedUrlMap == groupByUrl(baseSavedItems)
        mergedMap == mergeWith(openUrlMap, savedUrlMap)
    IN  flatten(mergedMap)

\* variant: the open items are left in the order of the merged map
mergeOpenTabsUnsortedOpen(tabItems, openTabs) ==
    LET tabInfo == getOpenTabInfo(tabItems, openTabs)
        open == SelectSeq(tabInfo, LAMBDA ti : ti.open)
        closed == SelectSeq(tabInfo, LAMBDA ti : ~ti.open)
        closedTabItems == sortBy(MapSeq(closed, LAMBDA ti :
                            [key |-> ti.savedState.bookmarkIndex, val |-> ti]))
    IN  open \o closedTabItems

\* variant: the open items are sorted by openTabId
mergeOpenTabsByTabId(tabItems, openTabs) ==
    LET tabInfo == getOpenTabInfo(tabItems, openTabs)
        open == SelectSeq(tabInfo, LAMBDA ti : ti.open)
        closed == SelectSeq(tabInfo, LAMBDA ti : ~ti.open)
        openTabItems == sortBy(MapSeq(open, LAMBDA ti :
                            [key |-> ti.openState.openTabId, val |-> ti]))
        closedTabItems == sortBy(MapSeq(closed, LAMBDA ti :
                            [key |-> ti.savedState.bookmarkIndex, val |-> ti]))
    IN  openTabItems \o closedTabItems

\* variant: the prior open-only items are kept beside the live tabs
mergeOpenTabsKeepStale(tabItems, openTabs) ==
    LET tabInfo == getOpenTabInfo(tabItems, openTabs)
        stale == SelectSeq(tabItems, LAMBDA ti : ti.open /\ ~ti.saved)
        open == SelectSeq(tabInfo, LAMBDA ti : ti.open) \o stale
        closed == SelectSeq(tabInfo, LAMBDA ti : ~ti.open)
        openTabItems == sortBy(MapSeq(open, LAMBDA ti :
                            [key |-> ti.openState.openTabIndex, val |-> ti]))
        closedTabItems == sortBy(MapSeq(closed, LAMBDA ti :
                            [key |-> ti.savedState.bookmarkIndex, val |-> ti]))
    IN  openTabItems \o closedTabItems

mergeOpenTabs(tabItems, openTabs) ==
    LET tabInfo == getOpenTabInfo(tabItems, openTabs)
        open == SelectSeq(tabInfo, LAMBDA ti : ti.open)
        closed == SelectSeq(tabInfo, LAMBDA ti : ~ti.open)
        openTabItems == sortBy(MapSeq(open, LAMBDA ti :
                            [key |-> ti.openState.openTabIndex, val |-> ti]))
        closedTabItems == sortBy(MapSeq(closed, LAMBDA ti :
                            [key |-> ti.savedState.bookmarkIndex, val |-> ti]))
    IN  openTabItems \o closedTabItems

\* variant: the window is not marked open
updateWindowNotOpen(tw, chromeWindow) ==
    [tw EXCEPT !.tabItems = mergeOpenTabs(tw.tabItems, chromeWindow.tabs),
               !.windowType = chromeWindow.type,
               !.openWindowId = chromeWindow.id]

\* chromeWindow is [id, type, hasTabs, tabs], with hasTabs true
updateWindow(tw, chromeWindow) ==
    [tw EXCEPT !.tabItems = mergeOpenTabs(tw.tabItems, chromeWindow.tabs),
               !.windowType = chromeWindow.type,
               !.open = TRUE,
               !.openWindowId = chromeWindow.id]

(* ------------------------ window constructors -------------------------- *)
\* bookmarkFolder is [id, hasTitle, title, children]; a child is
\* [id, index, title, url, hasUrl], hasUrl false for a sub-folder
makeFolderTabWindow(bookmarkFolder) ==
    LET itemChildren == SelectSeq(bookmarkFolder.children, LAMBDA node : node.hasUrl)
        tabItems == MapSeq(itemChildren, makeBookmarkedTabItem)
        fallbackTitle == IF ~bookmarkFolder.hasTitle /\ Len(tabItems) > 0
                         THEN title(tabItems[1]) ELSE ""
    IN  TabWindow(TRUE,
                  IF bookmarkFolder.hasTitle THEN bookmarkFolder.title ELSE fallbackTitle,
                  bookmarkFolder.id, FALSE, -1, "", tabItems)

makeChromeTabWindow(chromeWindow) ==
    LET chromeTabs == IF chromeWindow.hasTabs THEN chromeWindow.tabs ELSE <<>>
    IN  TabWindow(FALSE, "", -1, TRUE, chromeWindow.id, chromeWindow.type,
                  MapSeq(chromeTabs, makeOpenTabItem))

(* --------------------------- event mutators ---------------------------- *)
removeOpenWindowState(tw) ==
    LET savedItems == SelectSeq(tw.tabItems, LAMBDA ti : ti.saved)
        resetSavedItems == MapSeq(savedItems, resetSavedItem)
    IN  [tw EXCEPT !.open = FALSE, !.openWindowId = -1, !.windowType = "",
                   !.tabItems = resetSavedItems]

removeSavedWindowState(tw) ==
    [tw EXCEPT !.saved = FALSE, !.savedFolderId = -1, !.savedTitle = ""]

\* variant: the closed tab is removed even when it is saved
closeTabAlwaysRemove(tw, tabId) ==
    LET entry == findEntry(tw.tabItems,
                     LAMBDA ti : ti.open /\ ti.openState.openTabId = tabId)
    IN  IF entry = 0 THEN tw
        ELSE [tw EXCEPT !.tabItems = splice(tw.tabItems, entry - 1, 1, <<>>)]

\* variant: the lookup is not guarded, a miss removes the first item
closeTabNoGuard(tw, tabId) ==
    LET entry == findEntry(tw.tabItems,
                     LAMBDA ti : ti.open /\ ti.openState.openTabId = tabId)
        tabItem == tw.tabItems[entry]
    IN  IF entry = 0 THEN [tw EXCEPT !.tabItems = splice(tw.tabItems, 0, 1, <<>>)]
        ELSE IF tabItem.saved
             THEN [tw EXCEPT !.tabItems =
                      splice(tw.tabItems, entry - 1, 1, <<resetSavedItem(tabItem)>>)]
             ELSE [tw EXCEPT !.tabItems = splice(tw.tabItems, entry - 1, 1, <<>>)]

closeTab(tw, tabId) ==
    LET entry == findEntry(tw.tabItems,
                     LAMBDA ti : ti.open /\ ti.openState.openTabId = tabId)
        tabItem == tw.tabItems[entry]
    IN  IF entry = 0 THEN tw
        ELSE IF tabItem.saved
             THEN [tw EXCEPT !.tabItems =
                      splice(tw.tabItems, entry - 1, 1, <<resetSavedItem(tabItem)>>)]
             ELSE [tw EXCEPT !.tabItems = splice(tw.tabItems, entry - 1, 1, <<>>)]

\* new SavedTabState(tabNode): the Record constructor copies the fields of
\* tabNode named bookmarkId, bookmarkIndex, title and url; a bookmark node
\* [id, index, title, url] has no bookmarkId and no bookmarkIndex, which
\* keep their defaults
SavedTabStateOf(tabNode) == SavedTabState("", 0, tabNode.title, tabNode.url)

\* the lookup is not guarded: tabItem is an open item of tw
saveTab(tw, tabItem, tabNode) ==
    LET index == findEntry(tw.tabItems, LAMBDA ti :
                     ti.open /\ ti.openState.openTabId = tabItem.openState.openTabId)
        savedState == SavedTabStateOf(tabNode)
        updTabItem == [tabItem EXCEPT !.saved = TRUE, !.savedState = savedState]
    IN  [tw EXCEPT !.tabItems = splice(tw.tabItems, index - 1, 1, <<updTabItem>>)]

\* variant: the unsaved item is kept even when it is closed
unsaveTabAlwaysReplace(tw, tabItem) ==
    LET index == findEntry(tw.tabItems, LAMBDA ti :
                     ti.saved /\ ti.savedState.bookmarkId = tabItem.savedState.bookmarkId)
        updTabItem == resetOpenItem(tabItem)
    IN  [tw EXCEPT !.tabItems = splice(tw.tabItems, index - 1, 1, <<updTabItem>>)]

\* the lookup is not guarded: tabItem is a saved item of tw
unsaveTab(tw, tabItem) ==
    LET index == findEntry(tw.tabItems, LAMBDA ti :
                     ti.saved /\ ti.savedState.bookmarkId = tabItem.savedState.bookmarkId)
        updTabItem == resetOpenItem(tabItem)
    IN  IF updTabItem.open
        THEN [tw EXCEPT !.tabItems = splice(tw.tabItems, index - 1, 1, <<updTabItem>>)]
        ELSE [tw EXCEPT !.tabItems = splice(tw.tabItems, index - 1, 1, <<>>)]

\* tabItem.active: TabItem has no field active (it is a field of openState),
\* the property read yields undefined and the early return is never taken
TabItemActive(tabItem) == FALSE

\* variant: the previously active tab is not cleared
setActiveTabNoClear(tw, tabId) ==
    LET tabPos == findEntry(tw.tabItems,
                      LAMBDA ti : ti.open /\ ti.openState.openTabId = tabId)
        updActiveTab == [tw.tabItems[tabPos] EXCEPT !.openState.active = TRUE]
    IN  IF tabPos = 0 THEN tw
        ELSE [tw EXCEPT !.tabItems = splice(tw.tabItems, tabPos - 1, 1, <<updActiveTab>>)]

setActiveTab(tw, tabId) ==
    LET tabPos == findEntry(tw.tabItems,
                      LAMBDA ti : ti.open /\ ti.openState.openTabId = tabId)
        tabItem == tw.tabItems[tabPos]
        prevPos == findEntry(tw.tabItems, LAMBDA ti : ti.open /\ ti.openState.active)
        updPrevActiveTab == [tw.tabItems[prevPos] EXCEPT !.openState.active = FALSE]
        nonActiveItems == IF prevPos # 0
                          THEN splice(tw.tabItems, prevPos - 1, 1, <<updPrevActiveTab>>)
                          ELSE tw.tabItems
        updActiveTab == [tabItem EXCEPT !.openState.active = TRUE]
    IN  IF tabPos = 0 THEN tw
        ELSE IF TabItemActive(tabItem) THEN tw
        ELSE [tw EXCEPT !.tabItems = splice(nonActiveItems, tabPos - 1, 1, <<updActiveTab>>)]

\* variant: a new tab overwrites the item at its index
updateTabItemOverwrite(tw, tab) ==
    LET tabItem == makeOpenTabItem(tab)
        tabPos == findEntry(tw.tabItems,
                      LAMBDA ti : ti.open /\ ti.openState.openTabId = tab.id)
    IN  IF tabPos = 0
        THEN [tw EXCEPT !.tabItems = splice(tw.tabItems, tab.index, 1, <<tabItem>>)]
        ELSE [tw EXCEPT !.tabItems = splice(tw.tabItems, tabPos - 1, 1, <<tabItem>>)]

\* variant: an existing tab keeps the saved facet of the item it replaces
updateTabItemKeepSaved(tw, tab) ==
    LET tabItem == makeOpenTabItem(tab)
        tabPos == findEntry(tw.tabItems,
                      LAMBDA ti : ti.open /\ ti.openState.openTabId = tab.id)
        kept == [tabItem EXCEPT !.saved = tw.tabItems[tabPos].saved,
                                !.savedState = tw.tabItems[tabPos].savedState]
    IN  IF tabPos = 0
        THEN [tw EXCEPT !.tabItems = splice(tw.tabItems, tab.index, 0, <<tabItem>>)]
        ELSE [tw EXCEPT !.tabItems = splice(tw.tabItems, tabPos - 1, 1, <<kept>>)]

updateTabItem(tw, tab) ==
    LET tabItem == makeOpenTabItem(tab)
        tabPos == findEntry(tw.tabItems,
                      LAMBDA ti : ti.open /\ ti.openState.openTabId = tab.id)
    IN  IF tabPos = 0
        THEN [tw EXCEPT !.tabItems = splice(tw.tabItems, tab.index, 0, <<tabItem>>)]
        ELSE [tw EXCEPT !.tabItems = splice(tw.tabItems, tabPos - 1, 1, <<tabItem>>)]

(* ------------------------------ inputs --------------------------------- *)
\* a Chrome tab as reported by a tab event
ChromeTabs ==
    { [id |-> id, url |-> url, title |-> t, favIconUrl |-> "",
       active |-> act, index |-> index, audible |-> FALSE] :
        id \in TabIds, url \in Urls, t \in TabTitles, act \in BOOLEAN,
        index \in TabIndexes }

\* a snapshot of the tabs of a Chrome window: distinct ids, index = position,
\* at most one active tab
ChromeTabLists ==
    UNION { { [i \in 1..n |->
                 [id |-> ids[i], url |-> urls[i], title |-> t, favIconUrl |-> "",
                  active |-> (act = i), index |-> i - 1, audible |-> FALSE]] :
               ids \in {f \in [1..n -> TabIds] :
                           \A i, j \in 1..n : i # j => f[i] # f[j]},
               urls \in [1..n -> Urls],
               t \in TabTitles,
               act \in 0..n }
          : n \in 0..Cardinality(TabIds) }

\* a Chrome window; hasTabs is false when the snapshot has no tabs property
ChromeWindows ==
    { [id |-> id, type |-> type, hasTabs |-> TRUE, tabs |-> tabs] :
        id \in WindowIds, type \in WindowTypes, tabs \in ChromeTabLists }
    \cup { [id |-> id, type |-> type, hasTabs |-> FALSE, tabs |-> <<>>] :
        id \in WindowIds, type \in WindowTypes }

\* a bookmark folder: children with distinct ids, index = position; the
\* folder id is a number, as is the default -1 of savedFolderId
BookmarkFolders ==
    UNION { { [id |-> 5, hasTitle |-> ht, title |-> "F",
               children |-> [i \in 1..n |->
                   [id |-> ids[i], index |-> i - 1, title |-> t,
                    url |-> urls[i], hasUrl |-> leaf[i]]]] :
               ids \in {f \in [1..n -> BookmarkIds] :
                           \A i, j \in 1..n : i # j => f[i] # f[j]},
               urls \in [1..n -> Urls],
               leaf \in [1..n -> BOOLEAN],
               t \in NodeTitles,
               ht \in BOOLEAN }
          : n \in 0..Cardinality(BookmarkIds) }

\* wider snapshots, the tab at position i having id i and the active tab,
\* if any, being the first
WideTabLists ==
    UNION { { [i \in 1..n |->
                 [id |-> i, url |-> urls[i], title |-> t, favIconUrl |-> "",
                  active |-> (act /\ i = 1), index |-> i - 1, audible |-> FALSE]] :
               urls \in [1..n -> Urls],
               t \in TabTitles,
               act \in BOOLEAN }
          : n \in 0..MaxWideTabs }

WideChromeWindows ==
    { [id |-> id, type |-> type, hasTabs |-> TRUE, tabs |-> tabs] :
        id \in WindowIds, type \in WindowTypes, tabs \in WideTabLists }

\* the bookmark node created for an open tab item
BookmarkNodes(tabItem) ==
    { [id |-> id, index |-> index, title |-> t, url |-> tabItem.url] :
        id \in BookmarkIds, index \in {0, 1}, t \in NodeTitles }

NoTab == [id |-> 0, url |-> "", title |-> "", favIconUrl |-> "",
          active |-> FALSE, index |-> 0, audible |-> FALSE]
NoItem == TabItem("", FALSE, Null, FALSE, Null)
NoNode == [id |-> "", index |-> 0, title |-> "", url |-> ""]
NoChromeWindow == [id |-> -1, type |-> "", hasTabs |-> FALSE, tabs |-> <<>>]
NoWindow == TabWindow(FALSE, "", -1, FALSE, -1, "", <<>>)

\* the record of the last call: operation, arguments, and whether it raised
Call(op, cw, id, tab, item, node, raised) ==
    [op |-> op, cw |-> cw, id |-> id, tab |-> tab, item |-> item, node |-> node,
     raised |-> raised]

(* ------------------------------ actions -------------------------------- *)
\* The host delivers events one at a time: a call is applied to the current
\* window and returns the next one (tabWindow), prev being the window it was
\* applied to; Apply makes the returned window the baseline of the next call.
NoCall == Call("none", NoChromeWindow, 0, NoTab, NoItem, NoNode, FALSE)

\* the host is ready to deliver the next event
Ready == call = NoCall /\ ncalls < MaxCalls

Init ==
    /\ prev = NoWindow
    /\ ncalls = 0
    /\ \/ \E cw \in ChromeWindows :
             /\ tabWindow = makeChromeTabWindow(cw)
             /\ call = Call("makeChromeTabWindow", cw, 0, NoTab, NoItem, NoNode, FALSE)
       \/ \E bf \in BookmarkFolders :
             /\ tabWindow = makeFolderTabWindow(bf)
             /\ call = Call("makeFolderTabWindow", NoChromeWindow, 0, NoTab, NoItem,
                            NoNode, FALSE)

Apply ==
    /\ call # NoCall
    /\ call' = NoCall
    /\ prev' = NoWindow
    /\ UNCHANGED <<tabWindow, ncalls>>

\* chromeWindow.tabs.map raises a TypeError when the snapshot has no tabs
UpdateWindow ==
    /\ Ready
    /\ ncalls' = ncalls + 1
    /\ \E cw \in ChromeWindows :
        /\ prev' = tabWindow
        /\ IF cw.hasTabs
           THEN /\ Len(updateWindow(tabWindow, cw).tabItems) <= MaxItems
                /\ tabWindow' = updateWindow(tabWindow, cw)
                /\ call' = Call("updateWindow", cw, 0, NoTab, NoItem, NoNode, FALSE)
           ELSE /\ tabWindow' = tabWindow
                /\ call' = Call("updateWindow", cw, 0, NoTab, NoItem, NoNode, TRUE)

UpdateWindowWide ==
    /\ Ready
    /\ ncalls' = ncalls + 1
    /\ \E cw \in WideChromeWindows :
        /\ prev' = tabWindow
        /\ Len(updateWindow(tabWindow, cw).tabItems) <= MaxItems
        /\ tabWindow' = updateWindow(tabWindow, cw)
        /\ call' = Call("updateWindow", cw, 0, NoTab, NoItem, NoNode, FALSE)

CloseTab ==
    /\ Ready
    /\ ncalls' = ncalls + 1
    /\ \E tabId \in TabIds :
        /\ prev' = tabWindow
        /\ tabWindow' = closeTab(tabWindow, tabId)
        /\ call' = Call("closeTab", NoChromeWindow, tabId, NoTab, NoItem, NoNode, FALSE)

SaveTab ==
    /\ Ready
    /\ ncalls' = ncalls + 1
    /\ \E i \in 1..Len(tabWindow.tabItems) :
        /\ tabWindow.tabItems[i].open
        /\ \E tabNode \in BookmarkNodes(tabWindow.tabItems[i]) :
            /\ prev' = tabWindow
            /\ tabWindow' = saveTab(tabWindow, tabWindow.tabItems[i], tabNode)
            /\ call' = Call("saveTab", NoChromeWindow, 0, NoTab, tabWindow.tabItems[i],
                            tabNode, FALSE)

UnsaveTab ==
    /\ Ready
    /\ ncalls' = ncalls + 1
    /\ \E i \in 1..Len(tabWindow.tabItems) :
        /\ tabWindow.tabItems[i].saved
        /\ prev' = tabWindow
        /\ tabWindow' = unsaveTab(tabWindow, tabWindow.tabItems[i])
        /\ call' = Call("unsaveTab", NoChromeWindow, 0, NoTab, tabWindow.tabItems[i],
                        NoNode, FALSE)

SetActiveTab ==
    /\ Ready
    /\ ncalls' = ncalls + 1
    /\ \E tabId \in TabIds :
        /\ prev' = tabWindow
        /\ tabWindow' = setActiveTab(tabWindow, tabId)
        /\ call' = Call("setActiveTab", NoChromeWindow, tabId, NoTab, NoItem, NoNode,
                        FALSE)

UpdateTabItem ==
    /\ Ready
    /\ ncalls' = ncalls + 1
    /\ \E tab \in ChromeTabs :
        /\ Len(updateTabItem(tabWindow, tab).tabItems) <= MaxItems
        /\ prev' = tabWindow
        /\ tabWindow' = updateTabItem(tabWindow, tab)
        /\ call' = Call("updateTabItem", NoChromeWindow, 0, tab, NoItem, NoNode, FALSE)

RemoveOpenWindowState ==
    /\ Ready
    /\ ncalls' = ncalls + 1
    /\ prev' = tabWindow
    /\ tabWindow' = removeOpenWindowState(tabWindow)
    /\ call' = Call("removeOpenWindowState", NoChromeWindow, 0, NoTab, NoItem, NoNode,
                    FALSE)

RemoveSavedWindowState ==
    /\ Ready
    /\ ncalls' = ncalls + 1
    /\ prev' = tabWindow
    /\ tabWindow' = removeSavedWindowState(tabWindow)
    /\ call' = Call("removeSavedWindowState", NoChromeWindow, 0, NoTab, NoItem, NoNode,
                    FALSE)

\* the tab events and window snapshots
Next ==
    \/ Apply
    \/ UpdateWindow
    \/ CloseTab
    \/ SaveTab
    \/ UnsaveTab
    \/ SetActiveTab
    \/ UpdateTabItem

Spec == Init /\ [][Next]_vars

\* the same, with the window level resets
NextWindow ==
    \/ Next
    \/ RemoveOpenWindowState
    \/ RemoveSavedWindowState

SpecWindow == Init /\ [][NextWindow]_vars

\* reconciliation against wider snapshots, of windows whose tabs are saved
\* and unsaved in between
NextMerge ==
    \/ Apply
    \/ UpdateWindowWide
    \/ SaveTab
    \/ UnsaveTab

SpecMerge == Init /\ [][NextMerge]_vars

\* sequences of setActiveTab calls on windows built by the constructors,
\* reconciliation, closeTab and saveTab
NextActive ==
    \/ Apply
    \/ UpdateWindow
    \/ CloseTab
    \/ SaveTab
    \/ SetActiveTab

SpecActive == Init /\ [][NextActive]_vars

\* windows built from a live window, narrow or wide, and reconciled against
\* live windows
InitLive ==
    /\ prev = NoWindow
    /\ ncalls = 0
    /\ \E cw \in ChromeWindows \cup WideChromeWindows :
          /\ tabWindow = makeChromeTabWindow(cw)
          /\ call = Call("makeChromeTabWindow", cw, 0, NoTab, NoItem, NoNode, FALSE)

NextLive ==
    \/ Apply
    \/ UpdateWindow
    \/ UpdateWindowWide

SpecLive == InitLive /\ [][NextLive]_vars

(* ------------------------------ properties ----------------------------- *)
\* the last call was a reconciliation that returned
Reconciled == call.op = "updateWindow" /\ ~call.raised

\* the prior item sequence, the live tabs and the output of the last call
prior == prev.tabItems
live == call.cw.tabs
out == tabWindow.tabItems

LiveUrl(u) == \E k \in 1..Len(live) : live[k].url = u
SavedUrl(u) == \E i \in 1..Len(prior) : prior[i].saved /\ prior[i].url = u
FirstSavedAt(u) ==
    prior[CHOOSE i \in 1..Len(prior) :
              /\ prior[i].saved /\ prior[i].url = u
              /\ \A h \in 1..(i - 1) : ~(prior[h].saved /\ prior[h].url = u)]

\* C1: reconciliation loses no saved tab: every prior item with saved=true
\* is represented in the output by a saved item with the same, unchanged
\* savedState, open at its URL when that URL is live and closed when not.
NoSavedTabLost ==
    Reconciled =>
        \A i \in 1..Len(prior) : prior[i].saved =>
            \E j \in 1..Len(out) :
                /\ out[j].saved
                /\ out[j].savedState.bookmarkId = prior[i].savedState.bookmarkId
                /\ out[j].savedState = prior[i].savedState
                /\ out[j].url = prior[i].url
                /\ out[j].open <=> LiveUrl(prior[i].url)

\* C2: partition-and-order law: in the output of reconciliation every open
\* item precedes every closed item, the open items ascend by openTabIndex
\* and the closed items ascend by bookmarkIndex.
PartitionAndOrder ==
    Reconciled =>
        \A i, j \in 1..Len(out) : i < j =>
            /\ out[j].open => out[i].open
            /\ (out[i].open /\ out[j].open) =>
                   out[i].openState.openTabIndex <= out[j].openState.openTabIndex
            /\ (~out[i].open /\ ~out[j].open) =>
                   out[i].savedState.bookmarkIndex <= out[j].savedState.bookmarkIndex

\* a reconciliation with two open items and a closed item in the output,
\* the closed item coming before a now open item in the prior sequence
PartitionAndOrderWitness ==
    /\ Reconciled
    /\ \E i, j \in 1..Len(out) : i # j /\ out[i].open /\ out[j].open
    /\ \E j \in 1..Len(out) : ~out[j].open
    /\ \E h, i \in 1..Len(prior) :
          /\ h < i
          /\ prior[h].saved /\ ~LiveUrl(prior[h].url)
          /\ prior[i].saved /\ LiveUrl(prior[i].url)

\* C3: merge by URL: an output item is open and saved exactly when its URL
\* is live and saved in the prior sequence; every live tab at a saved URL
\* carries the savedState of the first prior saved item at that URL, a live
\* tab at an unsaved URL is open-only, and a prior saved item whose URL is
\* not live is output closed with its savedState unchanged.
MergeByUrl ==
    Reconciled =>
        /\ \A j \in 1..Len(out) :
              (out[j].open /\ out[j].saved) <=>
                  (LiveUrl(out[j].url) /\ SavedUrl(out[j].url))
        /\ \A k \in 1..Len(live) : \E j \in 1..Len(out) :
              /\ out[j].open
              /\ out[j].openState.openTabId = live[k].id
              /\ out[j].url = live[k].url
              /\ IF SavedUrl(live[k].url)
                 THEN /\ out[j].saved
                      /\ out[j].savedState = FirstSavedAt(live[k].url).savedState
                 ELSE /\ ~out[j].saved
                      /\ out[j].savedState = Null
        /\ \A i \in 1..Len(prior) : (prior[i].saved /\ ~LiveUrl(prior[i].url)) =>
              \E j \in 1..Len(out) :
                  /\ ~out[j].open
                  /\ out[j].saved
                  /\ out[j].savedState = prior[i].savedState
                  /\ out[j].savedState.bookmarkIndex = prior[i].savedState.bookmarkIndex

\* a reconciliation where two live tabs share a URL at which two prior items
\* are saved with different bookmarks, beside an unsaved live URL or a
\* saved URL that is not live
MergeByUrlWitness ==
    /\ Reconciled
    /\ \E k, l \in 1..Len(live) : k # l /\ live[k].url = live[l].url
          /\ \E h, i \in 1..Len(prior) :
                /\ h # i
                /\ prior[h].saved /\ prior[i].saved
                /\ prior[h].url = live[k].url /\ prior[i].url = live[k].url
                /\ prior[h].savedState # prior[i].savedState
    /\ \/ \E k \in 1..Len(live) : ~SavedUrl(live[k].url)
       \/ \E i \in 1..Len(prior) : prior[i].saved /\ ~LiveUrl(prior[i].url)

\* C4: reconciliation duplicates no tab and carries over no stale open
\* state: the open output items correspond one to one to the live tabs,
\* each with its tab's url, index and active flag, every other output item
\* is closed without openState, and a prior open-only item that is not in
\* the snapshot does not appear in the output.
NoDuplicateNoStale ==
    Reconciled =>
        /\ \A k \in 1..Len(live) :
              /\ Cardinality({j \in 1..Len(out) :
                     out[j].open /\ out[j].openState.openTabId = live[k].id}) = 1
              /\ \A j \in 1..Len(out) :
                     (out[j].open /\ out[j].openState.openTabId = live[k].id) =>
                         /\ out[j].url = live[k].url
                         /\ out[j].openState.url = live[k].url
                         /\ out[j].openState.openTabIndex = live[k].index
                         /\ out[j].openState.active = live[k].active
        /\ \A j \in 1..Len(out) :
              IF out[j].open
              THEN \E k \in 1..Len(live) : live[k].id = out[j].openState.openTabId
              ELSE out[j].openState = Null
        /\ \A i \in 1..Len(prior) :
              (/\ prior[i].open
               /\ ~prior[i].saved
               /\ \A k \in 1..Len(live) : live[k].id # prior[i].openState.openTabId) =>
                  \A j \in 1..Len(out) :
                      /\ out[j] # prior[i]
                      /\ out[j].open => out[j].openState.openTabId # prior[i].openState.openTabId

\* a reconciliation whose prior sequence has an open-only item and an open
\* saved item that are both absent from the snapshot, and a live tab that
\* was open before
NoDuplicateNoStaleWitness ==
    /\ Reconciled
    /\ \E i \in 1..Len(prior) :
          /\ prior[i].open /\ ~prior[i].saved
          /\ \A k \in 1..Len(live) : live[k].id # prior[i].openState.openTabId
    /\ \E i \in 1..Len(prior) :
          /\ prior[i].open /\ prior[i].saved
          /\ \A k \in 1..Len(live) : live[k].id # prior[i].openState.openTabId
    /\ \E i \in 1..Len(prior), k \in 1..Len(live) :
          prior[i].open /\ live[k].id = prior[i].openState.openTabId

\* the items of the window the last call was applied to, and of its result
pre == prev.tabItems
post == tabWindow.tabItems

ActiveItems(items) ==
    {i \in 1..Len(items) : items[i].open /\ items[i].openState.active}

\* C5: single-active invariant over all operations: in every window reached
\* by the constructors, updateWindow and the tab mutators at most one item
\* is open and active.
SingleActive == Cardinality(ActiveItems(tabWindow.tabItems)) <= 1

\* the positions of pre whose item is open with the tab id of the call
Hits == {i \in 1..Len(pre) : pre[i].open /\ pre[i].openState.openTabId = call.id}

TabItemExistence ==
    \A i \in 1..Len(tabWindow.tabItems) :
        LET ti == tabWindow.tabItems[i]
        IN  /\ ti.saved \/ ti.open
            /\ ti.saved <=> ti.savedState # Null
            /\ ti.open <=> ti.openState # Null

\* an unsaveTab call on a closed saved item, which leaves other items
TabItemExistenceWitness ==
    /\ call.op = "unsaveTab"
    /\ call.item.saved /\ ~call.item.open
    /\ Len(post) = Len(pre) - 1
    /\ Len(post) >= 1

\* the position of the item closeTab finds
FirstHit == CHOOSE i \in Hits : \A h \in Hits : i <= h

\* C8: closeTab on the id of an open item: a saved item is replaced at its
\* position by its closed version with savedState unchanged, the length
\* being unchanged; an open-only item is removed, the length decreasing by
\* one; every other item is unchanged and keeps its relative order.
CloseTabEffect ==
    (call.op = "closeTab" /\ Hits # {}) =>
        IF pre[FirstHit].saved
        THEN /\ Len(post) = Len(pre)
             /\ ~post[FirstHit].open
             /\ post[FirstHit].openState = Null
             /\ post[FirstHit].saved
             /\ post[FirstHit].savedState = pre[FirstHit].savedState
             /\ post[FirstHit].url = pre[FirstHit].url
             /\ \A i \in 1..Len(pre) : i # FirstHit => post[i] = pre[i]
        ELSE /\ Len(post) = Len(pre) - 1
             /\ \A i \in 1..Len(post) :
                    post[i] = IF i < FirstHit THEN pre[i] ELSE pre[i + 1]

\* a closeTab call on an open saved item that is neither the first nor the
\* only item
CloseTabWitness ==
    /\ call.op = "closeTab"
    /\ Hits # {}
    /\ pre[FirstHit].saved
    /\ FirstHit > 1
    /\ Len(pre) > FirstHit

\* the positions of pre that hold the item passed to the call
ItemPositions == {i \in 1..Len(pre) : pre[i] = call.item}

\* C9: saveTab on an open item of the window: at the same position the
\* result has the item with its open facet unchanged, saved=true and a
\* savedState whose bookmarkId, bookmarkIndex, title and url are the id,
\* index, title and url of the bookmark node; the length and every other
\* item are unchanged.
SaveTabEffect ==
    call.op = "saveTab" =>
        /\ Len(post) = Len(pre)
        /\ \E p \in ItemPositions :
              /\ post[p].open
              /\ post[p].openState = pre[p].openState
              /\ post[p].url = pre[p].url
              /\ post[p].saved
              /\ post[p].savedState.bookmarkId = call.node.id
              /\ post[p].savedState.bookmarkIndex = call.node.index
              /\ post[p].savedState.title = call.node.title
              /\ post[p].savedState.url = call.node.url
              /\ \A i \in 1..Len(pre) : i # p => post[i] = pre[i]

\* C10: unsaveTab on a saved element of the window: the result is the
\* sequence with that element replaced in place by its open-only version
\* when it is open, or removed when it is closed; every other element is
\* unchanged and in the same order.
UnsaveTabEffect ==
    call.op = "unsaveTab" =>
        \E p \in ItemPositions :
            IF pre[p].open
            THEN /\ Len(post) = Len(pre)
                 /\ post[p] = [pre[p] EXCEPT !.saved = FALSE, !.savedState = Null]
                 /\ \A i \in 1..Len(pre) : i # p => post[i] = pre[i]
            ELSE /\ Len(post) = Len(pre) - 1
                 /\ \A i \in 1..Len(post) :
                        post[i] = IF i < p THEN pre[i] ELSE pre[i + 1]

\* the open-only item that describes the live tab of the call
LiveTabItem ==
    [url |-> call.tab.url, saved |-> FALSE, savedState |-> Null, open |-> TRUE,
     openState |-> [url |-> call.tab.url, openTabId |-> call.tab.id,
                    active |-> call.tab.active, openTabIndex |-> call.tab.index,
                    favIconUrl |-> call.tab.favIconUrl, title |-> call.tab.title,
                    audible |-> call.tab.audible]]

\* the positions of pre whose item is open with the id of the tab of the call
TabHits == {i \in 1..Len(pre) : pre[i].open /\ pre[i].openState.openTabId = call.tab.id}

\* the last call was updateTabItem with a tab that no open item has
NewTab == call.op = "updateTabItem" /\ TabHits = {}

\* C11 as stated: updateTabItem with a tab id that no open item has yields a
\* sequence one longer with a new open-only item built from the tab at
\* position tab.index, every prior item unchanged and in the same order.
NewTabAtIndex ==
    NewTab =>
        /\ Len(post) = Len(pre) + 1
        /\ call.tab.index < Len(post)
        /\ post[call.tab.index + 1] = LiveTabItem
        /\ \A i \in 1..Len(pre) :
              post[IF i <= call.tab.index THEN i ELSE i + 1] = pre[i]

\* the 0-based position at which splice inserts the new item
InsertPos == Min(call.tab.index, Len(pre))

\* C11 amended: the new open-only item is at position tab.index when the
\* prior sequence has at least tab.index items and at its end otherwise;
\* the sequence is one longer and every prior item, saved-only items
\* included, is unchanged and in the same relative order.
NewTabInserted ==
    NewTab =>
        /\ Len(post) = Len(pre) + 1
        /\ post[InsertPos + 1] = LiveTabItem
        /\ ~post[InsertPos + 1].saved
        /\ \A i \in 1..Len(pre) :
              post[IF i <= InsertPos THEN i ELSE i + 1] = pre[i]

\* a new tab inserted between two saved-only items, not at the front
NewTabInsertedWitness ==
    /\ NewTab
    /\ call.tab.index = 1
    /\ Len(pre) >= 2
    /\ ~pre[1].open /\ pre[1].saved
    /\ ~pre[2].open /\ pre[2].saved
    /\ post[2].open

\* the position of the item updateTabItem finds
FirstTabHit == CHOOSE i \in TabHits : \A h \in TabHits : i <= h

\* C18: updateTabItem with the id of an open item replaces that item at its
\* position, not at tab.index, by an open-only item rebuilt from the tab,
\* without saved facet even if the item was saved; the length and every
\* other item are unchanged.
ExistingTabReplaced ==
    (call.op = "updateTabItem" /\ TabHits # {}) =>
        /\ Len(post) = Len(pre)
        /\ post[FirstTabHit] = LiveTabItem
        /\ ~post[FirstTabHit].saved
        /\ post[FirstTabHit].savedState = Null
        /\ \A i \in 1..Len(pre) : i # FirstTabHit => post[i] = pre[i]

\* an update of a saved open item whose position differs from the index of
\* the tab, in a window with another item
ExistingTabReplacedWitness ==
    /\ call.op = "updateTabItem"
    /\ TabHits # {}
    /\ pre[FirstTabHit].saved
    /\ FirstTabHit - 1 # call.tab.index
    /\ pre[FirstTabHit].url # call.tab.url
    /\ Len(pre) >= 2

\* the positions of the prior saved items whose URL is not live
SavedNotLive == {i \in 1..Len(prior) : prior[i].saved /\ ~LiveUrl(prior[i].url)}

\* C12: updateWindow returns a window with open=true, the id and the type
\* of the live window, and the reconciled items (one open item per live
\* tab, then the prior saved items whose URL is not live, closed); the
\* window-level saved, savedTitle and savedFolderId are unchanged.
UpdateWindowFrame ==
    Reconciled =>
        /\ tabWindow.open
        /\ tabWindow.openWindowId = call.cw.id
        /\ tabWindow.windowType = call.cw.type
        /\ tabWindow.saved = prev.saved
        /\ tabWindow.savedTitle = prev.savedTitle
        /\ tabWindow.savedFolderId = prev.savedFolderId
        /\ Len(out) = Len(live) + Cardinality(SavedNotLive)
        /\ \A j \in 1..Len(out) :
              IF j <= Len(live)
              THEN /\ out[j].open
                   /\ \E k \in 1..Len(live) :
                         out[j].openState = makeOpenTabState(live[k])
              ELSE \E i \in SavedNotLive : out[j] = resetSavedItem(prior[i])

\* a reconciliation of a closed saved window that has a title, giving open
\* and closed items
UpdateWindowFrameWitness ==
    /\ Reconciled
    /\ prev.saved /\ ~prev.open
    /\ prev.savedTitle # ""
    /\ prev.windowType # call.cw.type
    /\ \E j \in 1..Len(out) : out[j].open
    /\ \E j \in 1..Len(out) : ~out[j].open

\* C13: lookup miss is a no-op: closeTab and setActiveTab with an id that no
\* open item of the window has return the window unchanged (same items,
\* same order, same window-level fields) and do not fail.
LookupMissNoOp ==
    (call.op \in {"closeTab", "setActiveTab"} /\ Hits = {}) =>
        /\ ~call.raised
        /\ tabWindow = prev

\* a closeTab call with an id that no open item has, on a window with an
\* open item of another id and a closed saved item
LookupMissWitness ==
    /\ call.op = "closeTab"
    /\ Hits = {}
    /\ \E i \in 1..Len(pre) : pre[i].open /\ pre[i].openState.openTabId # call.id
    /\ \E i \in 1..Len(pre) : ~pre[i].open /\ pre[i].saved

\* C14: ordering contract as an invariant of every window reached by the
\* constructors, updateWindow and the tab mutators: all open items precede
\* all closed items, the open items ascend by openTabIndex and the closed
\* items ascend by bookmarkIndex.
OrderingContract ==
    \A i, j \in 1..Len(tabWindow.tabItems) : i < j =>
        LET a == tabWindow.tabItems[i]
            b == tabWindow.tabItems[j]
        IN  /\ b.open => a.open
            /\ (a.open /\ b.open) =>
                   a.openState.openTabIndex <= b.openState.openTabIndex
            /\ (~a.open /\ ~b.open /\ a.saved /\ b.saved) =>
                   a.savedState.bookmarkIndex <= b.savedState.bookmarkIndex

\* C15: window three-state invariant: every window reached by the
\* constructors, updateWindow, the tab mutators, removeOpenWindowState and
\* removeSavedWindowState is open-unsaved, open-saved or closed-saved,
\* never open=false and saved=false.
ThreeStates == tabWindow.open \/ tabWindow.saved

\* C17: a live window snapshot without tabs list is treated as an empty tab
\* list and never raises: makeChromeTabWindow yields an open window with no
\* items, updateWindow an open window whose items are exactly the prior
\* saved items, all closed.
NoTabsListNeverRaises ==
    ~call.cw.hasTabs =>
        /\ call.op = "makeChromeTabWindow" =>
              /\ ~call.raised
              /\ tabWindow.open
              /\ tabWindow.tabItems = <<>>
        /\ call.op = "updateWindow" =>
              /\ ~call.raised
              /\ tabWindow.open
              /\ Len(post) = Cardinality({i \in 1..Len(pre) : pre[i].saved})
              /\ \A j \in 1..Len(post) :
                    /\ ~post[j].open
                    /\ \E i \in 1..Len(pre) :
                          pre[i].saved /\ post[j] = resetSavedItem(pre[i])

\* C19: open-tab identity invariant: in every window reached by the
\* constructors, updateWindow and the tab mutators, with snapshots carrying
\* distinct tab ids and saveTab and unsaveTab passed an item of the current
\* window, no two open items have the same openTabId.
OpenTabIdsUnique ==
    \A i, j \in 1..Len(tabWindow.tabItems) :
        (/\ i # j
         /\ tabWindow.tabItems[i].open
         /\ tabWindow.tabItems[j].open) =>
            tabWindow.tabItems[i].openState.openTabId #
                tabWindow.tabItems[j].openState.openTabId

\* C16: round trip: makeChromeTabWindow(w) followed by updateWindow with
\* the same w is a no-op on item content: the same items with the same
\* URLs, openTabIds and openTabIndex values in the same order, all
\* open-only.
RoundTrip ==
    (Reconciled /\ prev = makeChromeTabWindow(call.cw)) =>
        /\ Len(out) = Len(prior)
        /\ \A i \in 1..Len(out) :
              /\ out[i].open
              /\ ~out[i].saved
              /\ out[i].savedState = Null
              /\ out[i].url = prior[i].url
              /\ out[i].openState.openTabId = prior[i].openState.openTabId
              /\ out[i].openState.openTabIndex = prior[i].openState.openTabIndex
              /\ out[i] = prior[i]

\* a round trip of a window of three tabs in which two tabs that are not
\* adjacent share a URL
RoundTripWitness ==
    /\ Reconciled
    /\ prev = makeChromeTabWindow(call.cw)
    /\ Len(live) = 3
    /\ live[1].url = live[3].url
    /\ live[1].url # live[2].url

\* C20: reconciliation is idempotent under a repeated snapshot: reconciling
\* the result of updateWindow(t, w) against w again gives the same
\* window-level fields and the same item sequence.
UpdateWindowIdempotent ==
    Reconciled => updateWindow(tabWindow, call.cw) = tabWindow

\* a reconciliation that changes the items, drops a prior open item that
\* is no longer live and gives an open saved item and a closed item
UpdateWindowIdempotentWitness ==
    /\ Reconciled
    /\ out # prior
    /\ \E i \in 1..Len(prior) :
          /\ prior[i].open
          /\ \A k \in 1..Len(live) : live[k].id # prior[i].openState.openTabId
    /\ \E j \in 1..Len(out) : out[j].open /\ out[j].saved
    /\ \E j \in 1..Len(out) : ~out[j].open
====
